---- MODULE Spec2Model ----
(***************************************************************************)
(* Model of the causal-finance core of bitcash-miner:                      *)
(*   - CausalAttribution (causal-attribution.js): the attribution ledger,  *)
(*     its chains and profits maps and the JSON snapshot it persists;      *)
(*   - SemanticRouter (semantic-router.js): routing table, profit          *)
(*     estimator, opportunity selection, strategy dispatch and the         *)
(*     router's own attribution bookkeeping.                               *)
(* Amounts of ETH are integers (abstract units) in the ledger; in the      *)
(* router expected profits are exact rationals scaled by ProfitScale.      *)
(***************************************************************************)
EXTENDS Integers, Sequences, FiniteSets, TLC

VARIABLES
    chains,          \* CausalAttribution.chains   : signalId -> causal chain
    profits,         \* CausalAttribution.profits  : txHash -> profit record
    db,              \* content of causal-profits.json
    writes,          \* fs.writeFile calls issued by saveToDatabase, not yet completed
    now,             \* Date.now()
    last,            \* the ledger call made by the last step (history)
    calls,           \* number of ledger calls made so far (history)
    failures,        \* failed snapshot writes and rejected recordProfit calls (history)
    returned,        \* what the last getDashboard call returned (history)
    recorded,        \* per chain, the updates recorded since tagJAM created it (history)
    attributionMap,  \* SemanticRouter.attributionMap  : txHash -> attribution
    profitsBySignal, \* SemanticRouter.profitsBySignal : signal type -> profit
    emitted,         \* 'attribution' events emitted so far
    call,            \* the last routeSignal call and what it did (history)
    routed,          \* number of routeSignal calls made so far (history)
    inflight,        \* signals of the routeSignal calls that await executeStrategy
    report,          \* what the last getAttributionReport call returned (history)
    estimate,        \* calculateExpectedProfit applied to two weights, and what it gave
    selection,       \* the ranking of routeSignal applied to a list of venues, and what it gave
    scored,          \* what the calls of SemanticScorer.calculateCascade returned (history)
    signalHistory,   \* SemanticDaemon.signalHistory
    sending,         \* signals of the broadcastSignal calls that await sendTransaction
    picked,          \* what the last selectOptimalSignal call returned, and at which hour (history)
    ticks,           \* number of runs of the daemon's broadcast callback so far (history)
    totalSignals,    \* SemanticDaemon.cascadeMetrics.totalSignals
    sent,            \* what the last broadcastSignal call that settled returned (history)
    balanceHistory,  \* BalanceMonitor.balanceHistory
    profitLog,       \* the file at profitLogPath: how many snapshots it holds, and the last
    checking,        \* the position of the running checkAllBalances call (0: none runs)
    checks           \* number of checkAllBalances calls so far (history)

ledgerVars == <<chains, profits, db, writes, now, last, calls, failures, returned, recorded>>
routerVars == <<attributionMap, profitsBySignal, emitted, call, routed, inflight,
                report, estimate, selection>>
scorerVars == <<scored>>
daemonVars == <<signalHistory, sending, picked, ticks, totalSignals, sent>>
monitorVars == <<balanceHistory, profitLog, checking, checks>>
vars == <<chains, profits, db, writes, now, last, calls, failures, returned, recorded,
          attributionMap, profitsBySignal, emitted, call, routed, inflight,
          report, estimate, selection, scored, signalHistory, sending, picked, ticks,
          totalSignals, sent, balanceHistory, profitLog, checking, checks>>

----------------------------------------------------------------------------
(* Bounds of the model *)

MaxChains == 2       \* chains held by the ledger
MaxEvents == 2       \* events per chain
MaxNow == 1          \* clock ticks
MaxInflight == 2     \* snapshot writes in flight
MaxCalls == 4        \* ledger calls in one behaviour
MaxScored == 2       \* calls of the scorer in one behaviour
MaxTicks == 2        \* runs of the daemon's broadcast callback in one behaviour

Nonces == {0, 1}     \* values of crypto.randomBytes(4)

----------------------------------------------------------------------------
(* CausalAttribution *)

\* semanticSource objects handed to tagJAM
SemanticSources ==
    { [type |-> "parameterChange", weight |-> 10],
      [type |-> "spam", weight |-> 0] }

EventTypes == {"BOT_RESPONSE", "LIQUIDATION_EXECUTED", "JAM_OBSERVED"}

\* profitData objects handed to recordProfit; gasSpent may be absent
ProfitInputs ==
    { [txHash |-> "0xa", amountETH |-> 2, hasGas |-> FALSE, gasSpent |-> 0],
      [txHash |-> "0xb", amountETH |-> 1, hasGas |-> TRUE, gasSpent |-> 2] }

StatusOrder ==
    [s \in {"BROADCASTED", "TRIGGERED", "PROFITABLE", "COMPLETED"} |->
        CASE s = "BROADCASTED" -> 0
          [] s = "TRIGGERED" -> 1
          [] s = "PROFITABLE" -> 2
          [] s = "COMPLETED" -> 3]

\* `SIG-${semanticHash}-${nonce}`: the hash covers type, weight and timestamp
generateSignalId(semanticData, timestamp, nonce) ==
    <<semanticData.type, semanticData.weight, timestamp, nonce>>

UnknownId == <<"none", 0, 0, 0>>

\* a property that was never assigned
Undefined == [kind |-> "undefined", num |-> 0, den |-> 1]

\* a JavaScript number num/den; division by zero gives Infinity or NaN
Quotient(num, den) ==
    IF den # 0 THEN [kind |-> "number", num |-> num, den |-> den]
    ELSE IF num = 0 THEN [kind |-> "NaN", num |-> 0, den |-> 1]
    ELSE [kind |-> "Infinity", num |-> IF num > 0 THEN 1 ELSE -1, den |-> 1]

NewChain(semanticSource, timestamp) ==
    [ origin |-> semanticSource,
      jam |-> [timestamp |-> timestamp,
               expectedCascade |-> semanticSource.weight * semanticSource.weight],
      events |-> <<>>,
      profit |-> 0,
      status |-> "BROADCASTED",
      semanticROI |-> Undefined ]

\* Map.prototype.set
MapSet(map, key, value) ==
    [k \in DOMAIN map \cup {key} |-> IF k = key THEN value ELSE map[k]]

EmptyMap == [k \in {} |-> 0]

\* mutant: unshift instead of push
PushEventFront(events, event) == <<event>> \o events

\* chain.events.push(...)
PushEvent(events, event) == Append(events, event)

\* mutant: every event type triggers the chain
EventStatusAlwaysTriggers(status, type) ==
    IF type = "LIQUIDATION_EXECUTED" THEN "PROFITABLE" ELSE "TRIGGERED"

EventStatus(status, type) ==
    IF type = "BOT_RESPONSE" THEN "TRIGGERED"
    ELSE IF type = "LIQUIDATION_EXECUTED" THEN "PROFITABLE"
    ELSE status

\* recordEvent on a chain that exists
ChainAfterEvent(chain, type, timestamp) ==
    [chain EXCEPT
        !.events = PushEvent(chain.events, [timestamp |-> timestamp, type |-> type]),
        !.status = EventStatus(chain.status, type)]

GasSpent(profitData) == IF profitData.hasGas THEN profitData.gasSpent ELSE 0

NetProfit(profitData) == profitData.amountETH - GasSpent(profitData)

ProfitRecord(signalId, profitData, timestamp) ==
    [ signalId |-> signalId,
      txHash |-> profitData.txHash,
      amountETH |-> profitData.amountETH,
      gasSpent |-> GasSpent(profitData),
      netProfit |-> NetProfit(profitData),
      timestamp |-> timestamp ]

\* mutant: the total is overwritten, the earlier profits of the chain are lost
ChainAfterProfitOverwrite(chain, profitData) ==
    [chain EXCEPT
        !.profit = NetProfit(profitData),
        !.status = "COMPLETED",
        !.semanticROI = Quotient(NetProfit(profitData) * 100, chain.origin.weight)]

\* mutant: the ROI is taken from the cumulative profit of the chain
ChainAfterProfitCumulativeROI(chain, profitData) ==
    [chain EXCEPT
        !.profit = chain.profit + NetProfit(profitData),
        !.status = "COMPLETED",
        !.semanticROI = Quotient((chain.profit + NetProfit(profitData)) * 100,
                                 chain.origin.weight)]

\* recordProfit on a chain that exists
ChainAfterProfit(chain, profitData) ==
    [chain EXCEPT
        !.profit = chain.profit + NetProfit(profitData),
        !.status = "COMPLETED",
        !.semanticROI = Quotient(NetProfit(profitData) * 100, chain.origin.weight)]

\* JSON.stringify writes a number that is not finite as null
JsonNumber(x) ==
    IF x.kind \in {"NaN", "Infinity"} THEN [kind |-> "null", num |-> 0, den |-> 1]
    ELSE x

\* the snapshot saveToDatabase serialises, as JSON.parse reads it back
Snapshot(chainMap, profitMap) ==
    [ kind |-> "snapshot",
      chains |-> [id \in DOMAIN chainMap |->
                    [chainMap[id] EXCEPT !.semanticROI = JsonNumber(@)]],
      profits |-> profitMap ]

NoFile == [kind |-> "absent", chains |-> EmptyMap, profits |-> EmptyMap]

\* what a failed fs.writeFile can leave behind once it has opened the file
Truncated == [kind |-> "truncated", chains |-> EmptyMap, profits |-> EmptyMap]

NoFailure == [writes |-> 0, rejected |-> 0]

\* await this.saveToDatabase() inside recordProfit has no try/catch around
\* it: the rejection of fs.writeFile is the rejection of recordProfit
AfterFailedWrite(f) == [writes |-> f.writes + 1, rejected |-> f.rejected + 1]

\* names that every object literal inherits from Object.prototype
\* (constructor, toString, valueOf, ...): looked up in an object used as a
\* table, such a name finds the inherited member, which is truthy
InheritedNames == {"constructor"}

\* a semanticSource whose type is such a name
InheritedSource == [type |-> "constructor", weight |-> 10]

\* Array.from(this.chains.values()).reduce((sum, chain) => sum + chain.profit, 0)
RECURSIVE TotalProfit(_, _)
TotalProfit(chainMap, ids) ==
    IF ids = {} THEN 0
    ELSE LET id == CHOOSE x \in ids : TRUE
         IN  TotalProfit(chainMap, ids \ {id}) + chainMap[id].profit

\* the chains that analyzeSemanticYield counts under the key type
ChainsOfType(chainMap, type) == {id \in DOMAIN chainMap : chainMap[id].origin.type = type}

\* analysis[type] once the loop and the averages are done
AnalysisEntry(chainMap, type) ==
    LET ids == ChainsOfType(chainMap, type)
        successful == {id \in ids : chainMap[id].status \in {"COMPLETED", "PROFITABLE"}}
    IN  [count |-> Cardinality(ids),
         totalProfit |-> TotalProfit(chainMap, ids),
         avgROI |-> 0,
         avgProfit |-> Quotient(TotalProfit(chainMap, ids), Cardinality(ids)),
         successRate |-> Quotient(Cardinality(successful) * 100, Cardinality(ids))]

\* analysis = {}; if (!analysis[type]) analysis[type] = {...}: for a type that
\* is an inherited name analysis[type] is already truthy, no entry is made and
\* the counts go to the inherited member; Object.keys(analysis) and the
\* returned object hold the other types only
analyzeSemanticYield(chainMap) ==
    LET types == {chainMap[id].origin.type : id \in DOMAIN chainMap} \ InheritedNames
    IN  [t \in types |-> AnalysisEntry(chainMap, t)]

\* getDashboard; recentProfits and timestamp are left out
getDashboard(chainMap, profitMap) ==
    LET signalCount == Cardinality(DOMAIN chainMap)
        completedSignals ==
            Cardinality({id \in DOMAIN chainMap : chainMap[id].status = "COMPLETED"})
        totalProfit == TotalProfit(chainMap, DOMAIN chainMap)
    IN  [summary |->
            [totalSignals |-> signalCount,
             completedSignals |-> completedSignals,
             successRate |-> Quotient(completedSignals * 100, signalCount),
             totalProfitETH |-> totalProfit,
             avgProfitPerSignal |-> Quotient(totalProfit, signalCount)],
         semanticAnalysis |-> analyzeSemanticYield(chainMap)]

NothingReturned == [summary |-> "none", semanticAnalysis |-> EmptyMap]

NothingRecorded == [profit |-> 0, events |-> <<>>]

NoCall == [op |-> "none", id |-> UnknownId, known |-> FALSE, txHash |-> "", type |-> ""]

LedgerInit ==
    /\ chains = EmptyMap
    /\ profits = EmptyMap
    /\ db = NoFile
    /\ writes = <<>>
    /\ now = 0
    /\ last = NoCall
    /\ calls = 0
    /\ failures = NoFailure
    /\ returned = NothingReturned
    /\ recorded = EmptyMap

\* the clock advances between two calls
Tick ==
    /\ now < MaxNow
    /\ now' = now + 1
    /\ UNCHANGED <<chains, profits, db, writes, last, calls, failures, returned, recorded>>
    /\ UNCHANGED <<routerVars, scorerVars, daemonVars, monitorVars>>

TagJAM(semanticSource, nonce) ==
    LET signalId == generateSignalId(semanticSource, now, nonce) IN
    /\ signalId \in DOMAIN chains \/ Cardinality(DOMAIN chains) < MaxChains
    /\ calls < MaxCalls
    /\ chains' = MapSet(chains, signalId, NewChain(semanticSource, now))
    /\ calls' = calls + 1
    /\ last' = [op |-> "tagJAM", id |-> signalId, known |-> signalId \in DOMAIN chains,
                txHash |-> "", type |-> semanticSource.type]
    /\ recorded' = MapSet(recorded, signalId, NothingRecorded)
    /\ UNCHANGED <<profits, db, writes, now, failures, returned>>
    /\ UNCHANGED <<routerVars, scorerVars, daemonVars, monitorVars>>

\* mutant: a chain is created for an id that is not known
RecordEventCreating(signalId, type) ==
    /\ calls < MaxCalls
    /\ calls' = calls + 1
    /\ last' = [op |-> "recordEvent", id |-> signalId, known |-> signalId \in DOMAIN chains,
                txHash |-> "", type |-> type]
    /\ IF signalId \in DOMAIN chains
       THEN /\ Len(chains[signalId].events) < MaxEvents
            /\ chains' = [chains EXCEPT ![signalId] = ChainAfterEvent(@, type, now)]
            /\ recorded' = [recorded EXCEPT ![signalId].events = Append(@, type)]
       ELSE /\ chains' = MapSet(chains, signalId,
                                ChainAfterEvent(NewChain([type |-> "none", weight |-> 0], now),
                                                type, now))
            /\ recorded' = MapSet(recorded, signalId, [profit |-> 0, events |-> <<type>>])
    /\ UNCHANGED <<profits, db, writes, now, failures, returned>>
    /\ UNCHANGED <<routerVars, scorerVars, daemonVars, monitorVars>>

RecordEvent(signalId, type) ==
    /\ calls < MaxCalls
    /\ calls' = calls + 1
    /\ last' = [op |-> "recordEvent", id |-> signalId, known |-> signalId \in DOMAIN chains,
                txHash |-> "", type |-> type]
    /\ IF signalId \in DOMAIN chains
       THEN /\ Len(chains[signalId].events) < MaxEvents
            /\ chains' = [chains EXCEPT ![signalId] = ChainAfterEvent(@, type, now)]
            /\ recorded' = [recorded EXCEPT ![signalId].events = Append(@, type)]
       ELSE UNCHANGED <<chains, recorded>>
    /\ UNCHANGED <<profits, db, writes, now, failures, returned>>
    /\ UNCHANGED <<routerVars, scorerVars, daemonVars, monitorVars>>

\* mutant: the snapshot is written for an unknown id as well
RecordProfitAlwaysSaving(signalId, profitData) ==
    /\ calls < MaxCalls
    /\ calls' = calls + 1
    /\ last' = [op |-> "recordProfit", id |-> signalId, known |-> signalId \in DOMAIN chains,
                txHash |-> profitData.txHash, type |-> ""]
    /\ Len(writes) < MaxInflight
    /\ IF signalId \in DOMAIN chains
       THEN /\ chains' = [chains EXCEPT ![signalId] = ChainAfterProfit(@, profitData)]
            /\ profits' = MapSet(profits, profitData.txHash,
                                 ProfitRecord(signalId, profitData, now))
            /\ recorded' = [recorded EXCEPT ![signalId].profit = @ + NetProfit(profitData)]
       ELSE UNCHANGED <<chains, profits, recorded>>
    /\ writes' = Append(writes, Snapshot(chains', profits'))
    /\ UNCHANGED <<db, now, failures, returned>>
    /\ UNCHANGED <<routerVars, scorerVars, daemonVars, monitorVars>>

RecordProfit(signalId, profitData) ==
    /\ calls < MaxCalls
    /\ calls' = calls + 1
    /\ last' = [op |-> "recordProfit", id |-> signalId, known |-> signalId \in DOMAIN chains,
                txHash |-> profitData.txHash, type |-> ""]
    /\ IF signalId \in DOMAIN chains
       THEN /\ Len(writes) < MaxInflight
            /\ chains' = [chains EXCEPT ![signalId] = ChainAfterProfit(@, profitData)]
            /\ profits' = MapSet(profits, profitData.txHash,
                                 ProfitRecord(signalId, profitData, now))
            /\ writes' = Append(writes, Snapshot(chains', profits'))
            /\ recorded' = [recorded EXCEPT ![signalId].profit = @ + NetProfit(profitData)]
       ELSE UNCHANGED <<chains, profits, writes, recorded>>
    /\ UNCHANGED <<db, now, failures, returned>>
    /\ UNCHANGED <<routerVars, scorerVars, daemonVars, monitorVars>>

\* the pending writes without the i-th
Without(pending, i) ==
    [j \in 1..(Len(pending) - 1) |-> IF j < i THEN pending[j] ELSE pending[j + 1]]

\* fs.writeFile of one pending snapshot completes; the recordProfit that
\* awaits it returns
WriteDone(i) ==
    /\ i \in 1..Len(writes)
    /\ db' = writes[i]
    /\ writes' = Without(writes, i)
    /\ UNCHANGED <<chains, profits, now, last, calls, failures, returned, recorded>>
    /\ UNCHANGED <<routerVars, scorerVars, daemonVars, monitorVars>>

\* fs.writeFile of one pending snapshot fails: the file is untouched when it
\* could not be opened and cut short when the write broke off
WriteFail(i) ==
    /\ i \in 1..Len(writes)
    /\ db' \in {db, Truncated}
    /\ writes' = Without(writes, i)
    /\ failures' = AfterFailedWrite(failures)
    /\ UNCHANGED <<chains, profits, now, last, calls, recorded, returned>>
    /\ UNCHANGED <<routerVars, scorerVars, daemonVars, monitorVars>>

\* files that are valid JSON but not a snapshot, as another program or an
\* edit by hand leaves them: {"chains": 5, "profits": []}, for which
\* new Map(parsed.chains) raises, and {"chains": [], "profits": {}}, for
\* which new Map(parsed.profits) raises after this.chains has been assigned
ForeignFiles ==
    { [kind |-> "badChains", chains |-> EmptyMap, profits |-> EmptyMap],
      [kind |-> "badProfits", chains |-> EmptyMap, profits |-> EmptyMap] }

\* the file is replaced from outside the ledger
ForeignWrite(file) ==
    /\ db # file
    /\ db' = file
    /\ UNCHANGED <<chains, profits, writes, now, last, calls, failures, returned, recorded>>
    /\ UNCHANGED <<routerVars, scorerVars, daemonVars, monitorVars>>

\* JSON.parse of the file, then new Map(parsed.chains) and new Map(parsed.profits)
Loaded(file) == [chains |-> file.chains, profits |-> file.profits]

\* getDashboard reads the ledger and changes nothing
GetDashboard ==
    /\ calls < MaxCalls
    /\ calls' = calls + 1
    /\ last' = [op |-> "getDashboard", id |-> UnknownId, known |-> FALSE,
                txHash |-> "", type |-> ""]
    /\ returned' = getDashboard(chains, profits)
    /\ UNCHANGED <<chains, profits, db, writes, now, failures, recorded>>
    /\ UNCHANGED <<routerVars, scorerVars, daemonVars, monitorVars>>

LoadFromDatabase ==
    /\ calls < MaxCalls
    /\ calls' = calls + 1
    /\ last' = [op |-> "loadFromDatabase", id |-> UnknownId, known |-> FALSE,
                txHash |-> "", type |-> ""]
    /\ IF db.kind = "snapshot"
       THEN /\ chains' = Loaded(db).chains
            /\ profits' = Loaded(db).profits
       ELSE IF db.kind = "badProfits"
       THEN \* this.chains is assigned, then new Map(parsed.profits) raises
            \* and the catch swallows it
            /\ chains' = Loaded(db).chains
            /\ UNCHANGED profits
       ELSE UNCHANGED <<chains, profits>>
    /\ UNCHANGED <<db, writes, now, failures, returned, recorded>>
    /\ UNCHANGED <<routerVars, scorerVars, daemonVars, monitorVars>>

LedgerNext ==
    \/ Tick
    \/ \E s \in SemanticSources, n \in Nonces : TagJAM(s, n)
    \/ \E id \in DOMAIN chains \cup {UnknownId}, t \in EventTypes : RecordEvent(id, t)
    \/ \E id \in DOMAIN chains \cup {UnknownId}, p \in ProfitInputs : RecordProfit(id, p)
    \/ \E i \in 1..MaxInflight : WriteDone(i)
    \/ LoadFromDatabase

\* the ledger on a disk whose writes can fail
FailingDiskNext ==
    \/ LedgerNext
    \/ \E i \in 1..MaxInflight : WriteFail(i)


----------------------------------------------------------------------------
(* SemanticRouter *)

MaxRouteCalls == 2   \* routeSignal calls in one behaviour

\* Expected profits and minProfit are ETH multiplied by ProfitScale:
\* weight in tenths, chain modifier in tenths, strategy profit in
\* thousandths and cascade multiplier in hundredths give
\* weight/10 * modifier * strategyProfit * multiplier = product / 10^8.
ProfitScale == 100000000

\* Realised profits of an execution are in thousandths of ETH.
ResultScale == 1000

signalRoutes ==
    [t \in {"CRITICAL_PARAMETER_CHANGE", "LIQUIDATION_THRESHOLD_BREACH",
            "CROSS_CHAIN_YIELD_DELTA", "ORACLE_PRICE_DEVIATION",
            "BANKRUPTCY_FILING_DETECTED", "REGULATORY_ACTION_PENDING",
            "MEV_OPPORTUNITY_SURFACE", "FLASHLOAN_ARBITRAGE_GAP"} |->
        CASE t = "CRITICAL_PARAMETER_CHANGE" ->
                [chains |-> <<"ethereum">>,
                 strategies |-> <<"liquidation", "positionExit">>,
                 minProfit |-> 10000000, urgency |-> "immediate"]
          [] t = "LIQUIDATION_THRESHOLD_BREACH" ->
                [chains |-> <<"ethereum", "arbitrum">>,
                 strategies |-> <<"liquidation", "flashloan">>,
                 minProfit |-> 5000000, urgency |-> "immediate"]
          [] t = "CROSS_CHAIN_YIELD_DELTA" ->
                [chains |-> <<"ethereum", "arbitrum", "polygon">>,
                 strategies |-> <<"bridgeArbitrage", "yieldCapture">>,
                 minProfit |-> 2000000, urgency |-> "fast"]
          [] t = "ORACLE_PRICE_DEVIATION" ->
                [chains |-> <<"ethereum", "arbitrum">>,
                 strategies |-> <<"oracleArbitrage", "sandwich">>,
                 minProfit |-> 3000000, urgency |-> "immediate"]
          [] t = "BANKRUPTCY_FILING_DETECTED" ->
                [chains |-> <<"ethereum">>,
                 strategies |-> <<"massLiquidation", "shortPosition">>,
                 minProfit |-> 100000000, urgency |-> "medium"]
          [] t = "REGULATORY_ACTION_PENDING" ->
                [chains |-> <<"ethereum", "arbitrum">>,
                 strategies |-> <<"positionExit", "hedgeSetup">>,
                 minProfit |-> 50000000, urgency |-> "medium"]
          [] t = "MEV_OPPORTUNITY_SURFACE" ->
                [chains |-> <<"ethereum", "arbitrum">>,
                 strategies |-> <<"sandwich", "backrun">>,
                 minProfit |-> 1000000, urgency |-> "immediate"]
          [] t = "FLASHLOAN_ARBITRAGE_GAP" ->
                [chains |-> <<"ethereum", "arbitrum", "polygon">>,
                 strategies |-> <<"flashloan", "multiDexArb">>,
                 minProfit |-> 2000000, urgency |-> "immediate"]]

\* tenths
chainModifiers ==
    [c \in {"ethereum", "arbitrum", "polygon", "base"} |->
        CASE c = "ethereum" -> 10
          [] c = "arbitrum" -> 7
          [] c = "polygon" -> 5
          [] c = "base" -> 3]

\* thousandths
strategyProfits ==
    [s \in {"liquidation", "sandwich", "arbitrage", "flashloan",
            "massLiquidation", "bridgeArbitrage", "oracleArbitrage", "positionExit"} |->
        CASE s = "liquidation" -> 80
          [] s = "sandwich" -> 20
          [] s = "arbitrage" -> 15
          [] s = "flashloan" -> 25
          [] s = "massLiquidation" -> 150
          [] s = "bridgeArbitrage" -> 10
          [] s = "oracleArbitrage" -> 30
          [] s = "positionExit" -> 50]

\* mutant: a strategy without a configured rate counts as 0.1
StrategyProfitHighDefault(strategy) ==
    IF strategy \in DOMAIN strategyProfits THEN strategyProfits[strategy] ELSE 100

\* strategyProfits[strategy] || 0.01
StrategyProfit(strategy) ==
    IF strategy \in DOMAIN strategyProfits THEN strategyProfits[strategy] ELSE 10

\* mutant: Math.min in the place of Math.max
Min(a, b) == IF a <= b THEN a ELSE b

Max(a, b) == IF a >= b THEN a ELSE b

RECURSIVE MaxStrategyProfit(_)
MaxStrategyProfit(strategies) ==
    IF strategies = <<>> THEN 0
    ELSE Max(MaxStrategyProfit(SubSeq(strategies, 1, Len(strategies) - 1)),
             StrategyProfit(strategies[Len(strategies)]))

\* signal.cascadePotential || 0
CascadeOrZero(signal) == IF signal.hasCascade THEN signal.cascadePotential ELSE 0

\* mutant: (signal.weight || 10) / 10, a weight of 0 counts as the highest
calculateExpectedProfitDefaultWeight(signal, chainName, route) ==
    (IF signal.weight = 0 THEN 100 ELSE signal.weight) * chainModifiers[chainName]
        * MaxStrategyProfit(route.strategies) * (100 + CascadeOrZero(signal))

\* mutant: the base profit falls as the weight grows
calculateExpectedProfitInverted(signal, chainName, route) ==
    (100 - signal.weight) * chainModifiers[chainName]
        * MaxStrategyProfit(route.strategies) * (100 + CascadeOrZero(signal))

\* mutant: the cascade multiplier is left out
calculateExpectedProfitNoCascade(signal, chainName, route) ==
    signal.weight * chainModifiers[chainName]
        * MaxStrategyProfit(route.strategies) * 100

calculateExpectedProfit(signal, chainName, route) ==
    signal.weight * chainModifiers[chainName]
        * MaxStrategyProfit(route.strategies) * (100 + CascadeOrZero(signal))

Number(n) == [kind |-> "number", num |-> n, den |-> 1]

NaN == [kind |-> "NaN", num |-> 0, den |-> 1]

\* what calculateExpectedProfit returns for any venue name:
\* chainModifiers[chainName] is undefined for a name that is no key of the
\* table, and a product with undefined is NaN
Estimated(signal, chainName, route) ==
    IF chainName \in DOMAIN chainModifiers
    THEN Number(calculateExpectedProfit(signal, chainName, route))
    ELSE NaN

\* signals handed to routeSignal; weight is in tenths (95 is 9.5). The types
\* are those of the routing table, one the table does not have, and a name
\* the table inherits
SignalTypes == DOMAIN signalRoutes \cup {"UNKNOWN"} \cup InheritedNames

Signals ==
    { [type |-> t, weight |-> wc[1], hasCascade |-> TRUE, cascadePotential |-> wc[2]] :
        t \in DOMAIN signalRoutes, wc \in {<<0, 85>>, <<95, 0>>, <<95, 85>>, <<95, 900>>} }
    \cup { [type |-> t, weight |-> 100, hasCascade |-> FALSE, cascadePotential |-> 0] :
        t \in DOMAIN signalRoutes }
    \cup { [type |-> "UNKNOWN", weight |-> w, hasCascade |-> TRUE, cascadePotential |-> 85] :
        w \in {0, 95} }
    \cup { [type |-> t, weight |-> 95, hasCascade |-> TRUE, cascadePotential |-> 85] :
        t \in InheritedNames }

\* what the environment decides in one execution: whether the venue call
\* raises, and otherwise where Math.random() falls (0: lowest values,
\* 1: highest values) and the transaction hash drawn for the result
Environments ==
    [fails : {FALSE}, random : {0, 1}, txHash : {"0x1", "0x2"}]
    \cup {[fails |-> TRUE, random |-> 0, txHash |-> "0x1"]}

\* what a lookup that finds no route of the table is given as route
NoRoute == [chains |-> <<>>, strategies |-> <<>>, minProfit |-> 0, urgency |-> ""]

\* this.signalRoutes[signal.type] and the test if (!route): found says that
\* the value is truthy, inherited that it is a member inherited by the table
\* and no route (its chains and strategies are undefined)
RouteFor(type) ==
    IF type \in DOMAIN signalRoutes
    THEN [found |-> TRUE, inherited |-> FALSE, route |-> signalRoutes[type]]
    ELSE IF type \in InheritedNames
    THEN [found |-> TRUE, inherited |-> TRUE, route |-> NoRoute]
    ELSE [found |-> FALSE, inherited |-> FALSE, route |-> NoRoute]

\* mutant: the threshold is not applied
QualifiesAlways(expectedProfit, route) == expectedProfit >= 0

\* if (expectedProfit >= route.minProfit)
Qualifies(expectedProfit, route) == expectedProfit >= route.minProfit

Opportunity(signal, chainName, route) ==
    [chain |-> chainName,
     expectedProfit |-> calculateExpectedProfit(signal, chainName, route),
     strategies |-> route.strategies,
     urgency |-> route.urgency]

\* the loop over route.chains that fills opportunities
RECURSIVE Opportunities(_, _, _)
Opportunities(signal, route, venues) ==
    IF venues = <<>> THEN <<>>
    ELSE LET rest == Opportunities(signal, route, SubSeq(venues, 1, Len(venues) - 1))
             e == Estimated(signal, venues[Len(venues)], route)
             o == Opportunity(signal, venues[Len(venues)], route)
         IN  IF e.kind = "number" /\ Qualifies(e.num, route) THEN Append(rest, o) ELSE rest

\* Array.prototype.sort with (a, b) => b.expectedProfit - a.expectedProfit:
\* descending, and stable
\* mutant: the comparator a.expectedProfit - b.expectedProfit (ascending)
InsertByProfitAscending(sorted, o) ==
    LET k == Cardinality({i \in 1..Len(sorted) : sorted[i].expectedProfit <= o.expectedProfit})
    IN  SubSeq(sorted, 1, k) \o <<o>> \o SubSeq(sorted, k + 1, Len(sorted))

\* mutant: a sort that is not stable, equal profits come out reversed
InsertByProfitUnstable(sorted, o) ==
    LET k == Cardinality({i \in 1..Len(sorted) : sorted[i].expectedProfit > o.expectedProfit})
    IN  SubSeq(sorted, 1, k) \o <<o>> \o SubSeq(sorted, k + 1, Len(sorted))

InsertByProfit(sorted, o) ==
    LET k == Cardinality({i \in 1..Len(sorted) : sorted[i].expectedProfit >= o.expectedProfit})
    IN  SubSeq(sorted, 1, k) \o <<o>> \o SubSeq(sorted, k + 1, Len(sorted))

RECURSIVE SortByProfit(_)
SortByProfit(opportunities) ==
    IF opportunities = <<>> THEN <<>>
    ELSE InsertByProfit(SortByProfit(SubSeq(opportunities, 1, Len(opportunities) - 1)),
                        opportunities[Len(opportunities)])

NullResult ==
    [isNull |-> TRUE, success |-> FALSE, profit |-> 0, txHash |-> "",
     gasUsed |-> Undefined, error |-> FALSE]

SuccessResult(profit, txHash, gasUsed) ==
    [isNull |-> FALSE, success |-> TRUE, profit |-> profit, txHash |-> txHash,
     gasUsed |-> gasUsed, error |-> FALSE]

\* { success: false, profit: 0, error: error.message }
FailureResult ==
    [isNull |-> FALSE, success |-> FALSE, profit |-> 0, txHash |-> "",
     gasUsed |-> Undefined, error |-> TRUE]

\* Math.floor(cascadePotential / 20); NaN when cascadePotential is missing,
\* and then the loop over the positions does not run
Positions(signal) == IF signal.hasCascade THEN signal.cascadePotential \div 20 ELSE 0

executeLiquidation(signal, env) ==
    SuccessResult(Positions(signal) * (IF env.random = 0 THEN 500 ELSE 12999),
                  env.txHash,
                  IF signal.hasCascade THEN Number(Positions(signal) * 150000) ELSE NaN)

executeSandwich(signal, env) ==
    SuccessResult(IF env.random = 0 THEN 250 ELSE 3749, env.txHash, Number(300000))

executeFlashLoan(signal, env) ==
    SuccessResult(IF env.random = 0 THEN 2000 ELSE 49999, env.txHash, Number(500000))

executeMassLiquidation(signal, env) ==
    SuccessResult(IF env.random = 0 THEN 48000 ELSE 2638999, env.txHash,
                  Number((IF env.random = 0 THEN 3 ELSE 7) * 1000000))

\* the default branch: expectedProfit * (0.8 + Math.random() * 0.4),
\* rounded down to thousandths of ETH
Simulated(opportunity, env) ==
    SuccessResult((opportunity.expectedProfit * (IF env.random = 0 THEN 8 ELSE 12))
                      \div (10 * (ProfitScale \div ResultScale)),
                  env.txHash,
                  Number(IF env.random = 0 THEN 200000 ELSE 499999))

Executors == {"liquidation", "sandwich", "flashloan", "massLiquidation"}

\* the body of the try block: the switch over strategies[0]; an executor
\* either returns its result or raises
Dispatch(signal, opportunity, env) ==
    LET strategy == opportunity.strategies[1] IN
    IF strategy \in Executors /\ env.fails
    THEN [threw |-> TRUE, result |-> NullResult]
    ELSE [threw |-> FALSE,
          result |->
            CASE strategy = "liquidation" -> executeLiquidation(signal, env)
              [] strategy = "sandwich" -> executeSandwich(signal, env)
              [] strategy = "flashloan" -> executeFlashLoan(signal, env)
              [] strategy = "massLiquidation" -> executeMassLiquidation(signal, env)
              [] OTHER -> Simulated(opportunity, env)]

\* mutant: no catch, the failure propagates to the caller
executeStrategyNoCatch(signal, opportunity, env) ==
    LET d == Dispatch(signal, opportunity, env) IN
    [completed |-> IF d.threw THEN "rejected" ELSE "returned",
     threw |-> d.threw,
     dispatched |-> 1,
     result |-> d.result]

\* mutant: an executor that raised is invoked a second time
executeStrategyRetry(signal, opportunity, env) ==
    LET d == Dispatch(signal, opportunity, env) IN
    [completed |-> "returned",
     threw |-> d.threw,
     dispatched |-> IF d.threw THEN 2 ELSE 1,
     result |-> IF d.threw THEN FailureResult ELSE d.result]

\* try { ... return result } catch (error) { return failure }: the switch is
\* entered once, dispatched counts the executors it invoked
executeStrategy(signal, opportunity, env) ==
    LET d == Dispatch(signal, opportunity, env) IN
    [completed |-> "returned",
     threw |-> d.threw,
     dispatched |-> 1,
     result |-> IF d.threw THEN FailureResult ELSE d.result]

\* routeSignal up to the return value; what trackAttribution does with the
\* result is in RouteSignal
routeSignal(signal, env) ==
    LET r == RouteFor(signal.type)
        opportunities == SortByProfit(Opportunities(signal, r.route, r.route.chains))
    IN  IF r.found /\ r.inherited
        THEN \* route.chains.join(', ') raises a TypeError: the call rejects
             [signal |-> signal, opportunities |-> <<>>, invoked |-> <<>>,
              threw |-> FALSE, completed |-> "rejected", result |-> NullResult]
        ELSE IF ~r.found \/ opportunities = <<>>
        THEN [signal |-> signal, opportunities |-> opportunities, invoked |-> <<>>,
              threw |-> FALSE, completed |-> "returned", result |-> NullResult]
        ELSE LET best == opportunities[1]
                 x == executeStrategy(signal, best, env)
             IN  [signal |-> signal, opportunities |-> opportunities,
                  invoked |-> [k \in 1..x.dispatched |->
                                 [strategy |-> best.strategies[1], chain |-> best.chain]],
                  threw |-> x.threw, completed |-> x.completed, result |-> x.result]

\* if (!result || !result.success) return
Tracked(result) == ~result.isNull /\ result.success

Attribution(signal, result, timestamp) ==
    [signalType |-> signal.type, timestamp |-> timestamp, profit |-> result.profit,
     txHash |-> result.txHash, gasUsed |-> result.gasUsed]

\* this.profitsBySignal.get(signal.type) || 0
MapGetOrZero(map, key) == IF key \in DOMAIN map THEN map[key] ELSE 0

\* calculateExpectedProfit not called yet
NoEstimate ==
    [type |-> "UNKNOWN", chain |-> "ethereum", hasCascade |-> FALSE, cascadePotential |-> 0,
     low |-> 0, high |-> 0, done |-> FALSE, lowProfit |-> Number(0), highProfit |-> Number(0)]

\* nothing ranked yet
NoSelection ==
    [type |-> "UNKNOWN", profitOf |-> <<>>, done |-> FALSE, opportunities |-> <<>>]

NoRouteCall ==
    [signal |-> [type |-> "UNKNOWN", weight |-> 0, hasCascade |-> FALSE, cascadePotential |-> 0],
     opportunities |-> <<>>, invoked |-> <<>>, threw |-> FALSE,
     completed |-> "none", result |-> NullResult]

\* for (const [type, profit] of this.profitsBySignal) report.totalProfit += profit
RECURSIVE SumOfProfits(_, _)
SumOfProfits(map, keys) ==
    IF keys = {} THEN 0
    ELSE LET k == CHOOSE x \in keys : TRUE
         IN  SumOfProfits(map, keys \ {k}) + map[k]

\* getAttributionReport; topSignals is left out
getAttributionReport(attributions, profitsByType) ==
    [made |-> TRUE,
     totalSignals |-> Cardinality(DOMAIN attributions),
     totalProfit |-> SumOfProfits(profitsByType, DOMAIN profitsByType),
     profitByType |-> profitsByType]

NoReport == [made |-> FALSE, totalSignals |-> 0, totalProfit |-> 0, profitByType |-> EmptyMap]

RouterInit ==
    /\ attributionMap = EmptyMap
    /\ profitsBySignal = EmptyMap
    /\ emitted = 0
    /\ call = NoRouteCall
    /\ routed = 0
    /\ inflight = <<>>
    /\ report = NoReport

\* the end of a routeSignal call c: trackAttribution, then the return
Returns(c) ==
    /\ call' = c
    /\ IF c.completed = "returned" /\ c.invoked # <<>> /\ Tracked(c.result)
       THEN /\ attributionMap' = MapSet(attributionMap, c.result.txHash,
                                        Attribution(c.signal, c.result, now))
            /\ profitsBySignal' = MapSet(profitsBySignal, c.signal.type,
                                         MapGetOrZero(profitsBySignal, c.signal.type)
                                             + c.result.profit)
            /\ emitted' = emitted + 1
       ELSE UNCHANGED <<attributionMap, profitsBySignal, emitted>>

\* one routeSignal call that no other call overlaps
RouteSignal(signal, env) ==
    /\ routed < MaxRouteCalls
    /\ routed' = routed + 1
    /\ Returns(routeSignal(signal, env))
    /\ UNCHANGED <<inflight, report, estimate, selection>>
    /\ UNCHANGED <<ledgerVars, scorerVars, daemonVars, monitorVars>>

\* routeSignal reaches an opportunity to execute (its outcome does not
\* depend on what the executor will do)
Executes(signal) ==
    LET r == RouteFor(signal.type) IN
    r.found /\ Opportunities(signal, r.route, r.route.chains) # <<>>

\* a caller invokes routeSignal: the call runs up to
\* await this.executeStrategy(...), or to its return null when there is
\* nothing to execute; nothing makes it wait for the calls already in flight
BeginRoute(signal) ==
    /\ routed < MaxRouteCalls
    /\ routed' = routed + 1
    /\ IF Executes(signal)
       THEN /\ inflight' = Append(inflight, signal)
            /\ UNCHANGED <<attributionMap, profitsBySignal, emitted, call>>
       ELSE /\ Returns(routeSignal(signal, CHOOSE e \in Environments : TRUE))
            /\ UNCHANGED inflight
    /\ UNCHANGED <<report, estimate, selection>>
    /\ UNCHANGED <<ledgerVars, scorerVars, daemonVars, monitorVars>>

\* the executor awaited by the i-th call in flight settles and the call
\* runs to its end
EndRoute(i, env) ==
    /\ i \in 1..Len(inflight)
    /\ Returns(routeSignal(inflight[i], env))
    /\ inflight' = Without(inflight, i)
    /\ UNCHANGED <<routed, report, estimate, selection>>
    /\ UNCHANGED <<ledgerVars, scorerVars, daemonVars, monitorVars>>

\* getAttributionReport reads the router and changes nothing
GetAttributionReport ==
    /\ report' = getAttributionReport(attributionMap, profitsBySignal)
    /\ UNCHANGED <<attributionMap, profitsBySignal, emitted, call, routed, inflight,
                   estimate, selection>>
    /\ UNCHANGED <<ledgerVars, scorerVars, daemonVars, monitorVars>>

RouterNext ==
    \E s \in Signals, e \in Environments : RouteSignal(s, e)

----------------------------------------------------------------------------
(* SemanticScorer *)

\* the weights table of scoreEvent
weights ==
    [parameterChange |-> 10, goingConcern |-> 10, firstOfType |-> 10,
     governanceVote |-> 9, insiderAction |-> 9, liquidationTrigger |-> 7,
     oracleUpdate |-> 6, largeTx |-> 3, routineTx |-> 1, spam |-> 0]

\* event.type of the events given to the scorer: the categories of the table,
\* a category it does not have, an event without a type, and a name that the
\* table inherits
EventCategories == DOMAIN weights \cup {"flashCrash", "undefined"} \cup InheritedNames

\* Object.prototype.constructor and the like, as a JavaScript value
Function == [kind |-> "function", num |-> 0, den |-> 1]

\* weights[event.type] || 0: the inherited member is truthy and is returned
scoreEvent(event) ==
    IF event.type \in DOMAIN weights THEN Number(weights[event.type])
    ELSE IF event.type \in InheritedNames THEN Function
    ELSE Number(0)

\* Math.pow(score, 2); Math.pow of a function is NaN
Squared(score) == IF score.kind = "number" THEN Number(score.num * score.num) ELSE NaN

\* score >= 7; a comparison with a function is false
AtLeast(score, n) == score.kind = "number" /\ score.num >= n

calculateCascade(event) ==
    LET score == scoreEvent(event)
    IN  [semanticWeight |-> score,
         cascadePotential |-> Squared(score),
         priority |-> IF AtLeast(score, 7) THEN "URGENT" ELSE "MONITOR"]

ScorerInit == scored = <<>>

CalculateCascade(event) ==
    /\ Len(scored) < MaxScored
    /\ scored' = Append(scored, [event |-> event, cascade |-> calculateCascade(event)])
    /\ UNCHANGED <<ledgerVars, routerVars, daemonVars, monitorVars>>

----------------------------------------------------------------------------
(* SemanticDaemon *)

\* this.signalTemplates, weights in tenths; gas is the same for all
signalTemplates ==
    << [type |-> "CRITICAL_PARAMETER_CHANGE", weight |-> 100],
       [type |-> "LIQUIDATION_THRESHOLD_BREACH", weight |-> 95],
       [type |-> "COLLATERAL_RATIO_FLIP", weight |-> 98],
       [type |-> "ORACLE_PRICE_DEVIATION", weight |-> 92],
       [type |-> "VAULT_CASCADE_IMMINENT", weight |-> 100],
       [type |-> "BANKRUPTCY_FILING_DETECTED", weight |-> 100],
       [type |-> "INSIDER_TRADE_PATTERN", weight |-> 89],
       [type |-> "REGULATORY_ACTION_PENDING", weight |-> 96],
       [type |-> "MEV_OPPORTUNITY_SURFACE", weight |-> 91],
       [type |-> "FLASHLOAN_ARBITRAGE_GAP", weight |-> 88],
       [type |-> "CROSS_CHAIN_YIELD_DELTA", weight |-> 93],
       [type |-> "UTXO_QUANTUM_COLLAPSE", weight |-> 97],
       [type |-> "SEMANTIC_CONSENSUS_SHIFT", weight |-> 99],
       [type |-> "CAUSAL_ATTRIBUTION_SPIKE", weight |-> 100] >>

\* new Date().getHours(): one hour of each stretch of the day in which the
\* same time patterns apply (0-1, 2-4, 5-6, 7-13, 14-15, 16-18, 19-20, 21-23)
Hours == {0, 3, 6, 10, 14, 17, 20, 23}

\* Math.floor(Math.random() * 1000) of the monitoring callback: no cascade, a
\* small one and one above the cap of the boost
CascadeSizes == {0, 20, 999}

\* calculateTimeWeight, in tenths
calculateTimeWeight(signalType, hour) ==
    IF signalType = "LIQUIDATION_THRESHOLD_BREACH" /\ hour >= 2 /\ hour <= 6 THEN 15
    ELSE IF signalType = "MEV_OPPORTUNITY_SURFACE" /\ hour >= 14 /\ hour <= 18 THEN 13
    ELSE IF signalType = "BANKRUPTCY_FILING_DETECTED" /\ hour >= 16 /\ hour <= 20 THEN 14
    ELSE IF signalType = "ORACLE_PRICE_DEVIATION" /\ hour >= 0 /\ hour <= 4 THEN 16
    ELSE 10

RECURSIVE CascadeSum(_)
CascadeSum(history) ==
    IF history = <<>> THEN 0
    ELSE CascadeSum(SubSeq(history, 1, Len(history) - 1)) + history[Len(history)].cascadeSize

\* this.signalHistory.filter(s => s.type === signalType)
OfType(history, signalType) == SelectSeq(history, LAMBDA s : s.type = signalType)

\* mutant: the boost is not capped
getHistoricalSuccessUncapped(history, signalType) ==
    LET own == OfType(history, signalType)
    IN  IF Len(own) = 0 THEN [num |-> 0, den |-> 1]
        ELSE [num |-> CascadeSum(own), den |-> Len(own)]

\* getHistoricalSuccess, in hundredths, as the fraction num/den:
\* Math.min(avgCascade / 100, 0.5) with avgCascade = sum / length
getHistoricalSuccess(history, signalType) ==
    LET own == OfType(history, signalType)
    IN  IF Len(own) = 0 THEN [num |-> 0, den |-> 1]
        ELSE [num |-> Min(CascadeSum(own), 50 * Len(own)), den |-> Len(own)]

\* the candidates of selectOptimalSignal, in the order of the templates
WeightedTemplates(hour, history) ==
    [i \in 1..Len(signalTemplates) |->
        [type |-> signalTemplates[i].type,
         weight |-> signalTemplates[i].weight,
         timeWeight |-> calculateTimeWeight(signalTemplates[i].type, hour),
         historicalSuccess |-> getHistoricalSuccess(history, signalTemplates[i].type)]]

\* weight * timeWeight * (1 + historicalSuccess), as the fraction num/den of
\* ten-thousandths
Score(c) ==
    [num |-> c.weight * c.timeWeight * (100 * c.historicalSuccess.den + c.historicalSuccess.num),
     den |-> c.historicalSuccess.den]

Below(a, b) == a.num * b.den < b.num * a.den

\* mutant: scoreA - scoreB, the lowest score first
InsertByScoreAscending(sorted, c) ==
    LET k == Cardinality({i \in 1..Len(sorted) : ~Below(Score(c), Score(sorted[i]))})
    IN  SubSeq(sorted, 1, k) \o <<c>> \o SubSeq(sorted, k + 1, Len(sorted))

\* one step of candidates.sort((a, b) => scoreB - scoreA), which is stable
InsertByScore(sorted, c) ==
    LET k == Cardinality({i \in 1..Len(sorted) : ~Below(Score(sorted[i]), Score(c))})
    IN  SubSeq(sorted, 1, k) \o <<c>> \o SubSeq(sorted, k + 1, Len(sorted))

RECURSIVE SortByScore(_)
SortByScore(cands) ==
    IF cands = <<>> THEN <<>>
    ELSE InsertByScore(SortByScore(SubSeq(cands, 1, Len(cands) - 1)), cands[Len(cands)])

\* candidates.slice(0, 3)
topCandidates(hour, history) == SubSeq(SortByScore(WeightedTemplates(hour, history)), 1, 3)

\* Math.floor(Math.random() * topCandidates.length)
Randoms == 0..2

\* selectOptimalSignal at the given hour when Math.random() gives the index random
selectOptimalSignal(hour, history, random) == topCandidates(hour, history)[random + 1]

NoPick == [done |-> FALSE, hour |-> 0, signal |-> "none", current |-> FALSE]

DaemonInit ==
    /\ signalHistory = <<>>
    /\ sending = <<>>
    /\ picked = NoPick
    /\ ticks = 0
    /\ totalSignals = 0
    /\ sent = "none"

\* the broadcast callback of run() up to the await of sendTransaction:
\* selectOptimalSignal, then broadcastSignal(signal) builds and sends the
\* transaction
BroadcastTick(hour, random) ==
    LET signal == selectOptimalSignal(hour, signalHistory, random) IN
    /\ ticks < MaxTicks
    /\ ticks' = ticks + 1
    /\ picked' = [done |-> TRUE, hour |-> hour, signal |-> signal, current |-> TRUE]
    /\ sending' = Append(sending, signal.type)
    /\ UNCHANGED <<signalHistory, totalSignals, sent>>
    /\ UNCHANGED <<ledgerVars, routerVars, scorerVars, monitorVars>>

\* mutant: a failed send is counted as a signal
SendFailCounted(i) ==
    /\ i \in 1..Len(sending)
    /\ sending' = Without(sending, i)
    /\ totalSignals' = totalSignals + 1
    /\ sent' = "null"
    /\ UNCHANGED <<signalHistory, picked, ticks>>
    /\ UNCHANGED <<ledgerVars, routerVars, scorerVars, monitorVars>>

\* sendTransaction resolves: the signal is pushed on signalHistory (timestamp
\* and txHash are left out)
SendDone(i) ==
    /\ i \in 1..Len(sending)
    /\ signalHistory' = Append(signalHistory, [type |-> sending[i], cascadeSize |-> 0])
    /\ sending' = Without(sending, i)
    /\ totalSignals' = totalSignals + 1
    /\ sent' = "txResponse"
    /\ picked' = [picked EXCEPT !.current = FALSE]
    /\ UNCHANGED ticks
    /\ UNCHANGED <<ledgerVars, routerVars, scorerVars, monitorVars>>

\* sendTransaction rejects: the catch of broadcastSignal returns null
SendFail(i) ==
    /\ i \in 1..Len(sending)
    /\ sending' = Without(sending, i)
    /\ sent' = "null"
    /\ UNCHANGED <<signalHistory, picked, ticks, totalSignals>>
    /\ UNCHANGED <<ledgerVars, routerVars, scorerVars, monitorVars>>

\* the monitoring callback of run(): the last signal of the history is given
\* a random cascade size
MonitorTick(size) ==
    /\ Len(signalHistory) > 0
    /\ signalHistory' = [signalHistory EXCEPT ![Len(signalHistory)].cascadeSize = size]
    /\ picked' = [picked EXCEPT !.current = (signalHistory' = signalHistory /\ picked.current)]
    /\ UNCHANGED <<sending, ticks, totalSignals, sent>>
    /\ UNCHANGED <<ledgerVars, routerVars, scorerVars, monitorVars>>

----------------------------------------------------------------------------
(* BalanceMonitor *)

MaxChecks == 2

\* history.slice(-1000) of saveHistory
HistoryCap == 1000

\* this.balanceHistory.slice(-4)
SliceLength == 4

\* getETHPrice
EthPrice == 2000

\* Object.entries(this.chains)
monitoredChains == <<"ethereum", "base", "arbitrum", "optimism">>

\* what provider.getBalance gives for one chain: it raises, or a balance in ETH
BalanceOutcomes ==
    { [raises |-> TRUE, balance |-> 0],
      [raises |-> FALSE, balance |-> 0],
      [raises |-> FALSE, balance |-> 1] }

\* the log before the first save, and logs that earlier runs of the monitor
\* have filled up to the cap
NoLog == [length |-> 0, saved |-> FALSE, balances |-> <<>>, totalUSD |-> 0]

MonitorInit ==
    /\ balanceHistory = <<>>
    /\ profitLog = NoLog
    /\ checking = 0
    /\ checks = 0

\* setInterval or main() calls checkAllBalances; getETHPrice resolves
BeginCheck ==
    /\ checking = 0
    /\ checks < MaxChecks
    /\ checks' = checks + 1
    /\ checking' = 1
    /\ UNCHANGED <<balanceHistory, profitLog>>
    /\ UNCHANGED <<ledgerVars, routerVars, scorerVars, daemonVars>>

\* one round of the loop over the chains: getBalance settles, and when it
\* gave a balance the entry is pushed on balanceHistory; an error is caught
CheckChain(outcome) ==
    /\ checking \in 1..Len(monitoredChains)
    /\ checking' = checking + 1
    /\ balanceHistory' =
          IF outcome.raises THEN balanceHistory
          ELSE Append(balanceHistory,
                      [chain |-> monitoredChains[checking], balance |-> outcome.balance,
                       usdValue |-> outcome.balance * EthPrice])
    /\ UNCHANGED <<profitLog, checks>>
    /\ UNCHANGED <<ledgerVars, routerVars, scorerVars, daemonVars>>

\* this.balanceHistory.reduce((sum, b) => sum + b.usdValue, 0)
RECURSIVE SumUsd(_)
SumUsd(entries) ==
    IF entries = <<>> THEN 0
    ELSE SumUsd(SubSeq(entries, 1, Len(entries) - 1)) + entries[Len(entries)].usdValue

\* Array.prototype.slice(-n)
LastOf(entries, n) ==
    IF Len(entries) <= n THEN entries ELSE SubSeq(entries, Len(entries) - n + 1, Len(entries))

\* the snapshot that saveHistory pushes (the timestamp is left out)
BalanceSnapshot(entries) ==
    [balances |-> LastOf(entries, SliceLength), totalUSD |-> SumUsd(entries)]

\* history.push(...), then history = history.slice(-1000) when it is longer
Pushed(log, snapshot) ==
    [length |-> IF log.length + 1 > HistoryCap THEN HistoryCap ELSE log.length + 1,
     saved |-> TRUE,
     balances |-> snapshot.balances,
     totalUSD |-> snapshot.totalUSD]

\* what the file system does to one saveHistory: the log is read and
\* written, the log cannot be read or parsed (the history starts again from
\* []), or writeFile fails
SaveOutcomes == {"written", "unreadable", "failed"}

\* the end of checkAllBalances: checkCausalProfits only prints, saveHistory
\* appends the snapshot to the log; when writeFile fails the error is caught
\* and the log stays as it is
SaveHistory(outcome) ==
    /\ checking = Len(monitoredChains) + 1
    /\ checking' = 0
    /\ profitLog' =
          CASE outcome = "written" -> Pushed(profitLog, BalanceSnapshot(balanceHistory))
            [] outcome = "unreadable" -> Pushed(NoLog, BalanceSnapshot(balanceHistory))
            [] outcome = "failed" -> profitLog
    /\ UNCHANGED <<balanceHistory, checks>>
    /\ UNCHANGED <<ledgerVars, routerVars, scorerVars, daemonVars>>

Init ==
    /\ LedgerInit
    /\ RouterInit
    /\ estimate = NoEstimate
    /\ selection = NoSelection
    /\ ScorerInit
    /\ DaemonInit
    /\ MonitorInit

LedgerSpec == Init /\ [][LedgerNext]_vars

\* the ledger with what Node.js schedules by itself: time passes and every
\* fs.writeFile that was issued ends; nobody is obliged to call the ledger
FairLedgerSpec ==
    /\ Init
    /\ [][LedgerNext]_vars
    /\ WF_vars(Tick)
    /\ WF_vars(\E i \in 1..MaxInflight : WriteDone(i))

FailingDiskSpec == Init /\ [][FailingDiskNext]_vars

\* callers that only create chains and record on them, on a disk that works
ConcurrentNext ==
    \/ Tick
    \/ \E s \in SemanticSources, n \in Nonces : TagJAM(s, n)
    \/ \E id \in DOMAIN chains \cup {UnknownId}, t \in EventTypes : RecordEvent(id, t)
    \/ \E id \in DOMAIN chains \cup {UnknownId}, p \in ProfitInputs : RecordProfit(id, p)
    \/ \E i \in 1..MaxInflight : WriteDone(i)

ConcurrentSpec == Init /\ [][ConcurrentNext]_vars

\* the ledger on a file that something else can replace
ForeignFileNext ==
    \/ \E s \in SemanticSources, n \in Nonces : TagJAM(s, n)
    \/ \E id \in DOMAIN chains \cup {UnknownId}, p \in ProfitInputs : RecordProfit(id, p)
    \/ \E i \in 1..MaxInflight : WriteDone(i)
    \/ \E file \in ForeignFiles : ForeignWrite(file)
    \/ LoadFromDatabase

ForeignFileSpec == Init /\ [][ForeignFileNext]_vars

\* a router that routes signals and is asked for its report
ReportNext ==
    \/ \E s \in Signals, env \in Environments : RouteSignal(s, env)
    \/ GetAttributionReport

ReportSpec == Init /\ [][ReportNext]_vars

\* a ledger that is filled, then read; the sources include one whose type is
\* an inherited name
DashboardNext ==
    \/ \E s \in SemanticSources \cup {InheritedSource}, n \in Nonces : TagJAM(s, n)
    \/ \E id \in DOMAIN chains, t \in EventTypes : RecordEvent(id, t)
    \/ \E id \in DOMAIN chains, p \in ProfitInputs : RecordProfit(id, p)
    \/ \E i \in 1..MaxInflight : WriteDone(i)
    \/ GetDashboard

DashboardSpec == Init /\ [][DashboardNext]_vars

ScorerNext == \E t \in EventCategories : CalculateCascade([type |-> t])

ScorerSpec == Init /\ [][ScorerNext]_vars

\* the monitor started on a log that is empty, one snapshot short of the cap
\* or at the cap
MonitorStart ==
    /\ LedgerInit
    /\ RouterInit
    /\ estimate = NoEstimate
    /\ selection = NoSelection
    /\ ScorerInit
    /\ DaemonInit
    /\ balanceHistory = <<>>
    /\ profitLog \in {[NoLog EXCEPT !.length = n] : n \in {0, HistoryCap - 1, HistoryCap}}
    /\ checking = 0
    /\ checks = 0

MonitorNext ==
    \/ BeginCheck
    \/ \E outcome \in BalanceOutcomes : CheckChain(outcome)
    \/ \E outcome \in SaveOutcomes : SaveHistory(outcome)

MonitorSpec == MonitorStart /\ [][MonitorNext]_vars

DaemonNext ==
    \/ \E hour \in Hours, random \in Randoms : BroadcastTick(hour, random)
    \/ \E i \in 1..MaxTicks : SendDone(i)
    \/ \E i \in 1..MaxTicks : SendFail(i)
    \/ \E size \in CascadeSizes : MonitorTick(size)

DaemonSpec == Init /\ [][DaemonNext]_vars

RouterSpec == Init /\ [][RouterNext]_vars

\* signal weights, in tenths: the ends of [0, 10] and values inside
Weights == {0, 1, 50, 95, 100}

\* calculateExpectedProfit is called for a route, a venue name (one of them
\* without a chain modifier) and a cascade potential with two weights,
\* low <= high
VenueNames == DOMAIN chainModifiers \cup {"optimism"}

EstimateInputs ==
    { [type |-> t, chain |-> c, hasCascade |-> k[1], cascadePotential |-> k[2],
       low |-> w[1], high |-> w[2], done |-> FALSE,
       lowProfit |-> Number(0), highProfit |-> Number(0)] :
        t \in DOMAIN signalRoutes, c \in VenueNames,
        k \in {<<FALSE, 0>>, <<TRUE, 0>>, <<TRUE, 85>>},
        w \in {v \in Weights \X Weights : v[1] <= v[2]} }

EstimateInit ==
    /\ LedgerInit
    /\ RouterInit
    /\ estimate \in EstimateInputs
    /\ selection = NoSelection
    /\ ScorerInit
    /\ DaemonInit
    /\ MonitorInit

Estimate ==
    LET signalOf(w) == [type |-> estimate.type, weight |-> w,
                        hasCascade |-> estimate.hasCascade,
                        cascadePotential |-> estimate.cascadePotential]
        route == signalRoutes[estimate.type]
    IN  /\ ~estimate.done
        /\ estimate' = [estimate EXCEPT
                !.done = TRUE,
                !.lowProfit = Estimated(signalOf(estimate.low), estimate.chain, route),
                !.highProfit = Estimated(signalOf(estimate.high), estimate.chain, route)]
        /\ UNCHANGED <<attributionMap, profitsBySignal, emitted, call, routed, inflight,
                       report, selection>>
        /\ UNCHANGED <<ledgerVars, scorerVars, daemonVars, monitorVars>>

EstimateSpec == EstimateInit /\ [][Estimate]_vars

\* expected profits a venue of the route can be given: one below minProfit,
\* minProfit itself and one above it
ProfitLevels(route) == {route.minProfit - 1, route.minProfit, route.minProfit + 1}

\* the loop over route.chains that fills opportunities, for given expected
\* profits of the venues
RECURSIVE Candidates(_, _, _)
Candidates(route, profitOf, n) ==
    IF n = 0 THEN <<>>
    ELSE LET rest == Candidates(route, profitOf, n - 1)
             o == [chain |-> route.chains[n], expectedProfit |-> profitOf[n],
                   strategies |-> route.strategies, urgency |-> route.urgency]
         IN  IF Qualifies(o.expectedProfit, route) THEN Append(rest, o) ELSE rest

\* a route and an expected profit for each of its venues
SelectionInputs ==
    UNION { { [type |-> t, profitOf |-> p, done |-> FALSE, opportunities |-> <<>>] :
                p \in [1..Len(signalRoutes[t].chains) -> ProfitLevels(signalRoutes[t])] } :
            t \in DOMAIN signalRoutes }

SelectInit ==
    /\ LedgerInit
    /\ RouterInit
    /\ estimate = NoEstimate
    /\ selection \in SelectionInputs
    /\ ScorerInit
    /\ DaemonInit
    /\ MonitorInit

\* opportunities.sort(...) of routeSignal on the venues that qualified
Select ==
    LET route == signalRoutes[selection.type] IN
    /\ ~selection.done
    /\ selection' = [selection EXCEPT
            !.done = TRUE,
            !.opportunities =
                SortByProfit(Candidates(route, selection.profitOf, Len(route.chains)))]
    /\ UNCHANGED <<attributionMap, profitsBySignal, emitted, call, routed, inflight,
                   report, estimate>>
    /\ UNCHANGED <<ledgerVars, scorerVars, daemonVars, monitorVars>>

SelectSpec == SelectInit /\ [][Select]_vars

\* routeSignal calls made without awaiting one another
PipelineNext ==
    \/ \E s \in Signals : BeginRoute(s)
    \/ \E i \in 1..MaxRouteCalls, e \in Environments : EndRoute(i, e)

PipelineSpec == Init /\ [][PipelineNext]_vars

----------------------------------------------------------------------------
(* Properties of the attribution ledger *)

IsPrefix(s, t) == Len(s) <= Len(t) /\ SubSeq(t, 1, Len(s)) = s

\* the step is a call of the ledger operation op
LedgerCall(op) == calls' = calls + 1 /\ last'.op = op

\* C1: over recordEvent and recordProfit calls the status of every chain
\* only moves forward in BROADCASTED < TRIGGERED < PROFITABLE < COMPLETED.
C1_StatusNeverRegresses ==
    [][ (LedgerCall("recordEvent") \/ LedgerCall("recordProfit")) =>
            \A id \in DOMAIN chains :
                /\ id \in DOMAIN chains'
                /\ StatusOrder[chains'[id].status] >= StatusOrder[chains[id].status] ]_vars

\* C2: recordProfit for a chain with a txHash already recorded for that
\* chain does not add the net profit to the chain's profit again.
C2_IdempotentProfit ==
    [][ ( /\ LedgerCall("recordProfit")
          /\ last'.id \in DOMAIN chains
          /\ last'.txHash \in DOMAIN profits
          /\ profits[last'.txHash].signalId = last'.id )
        => chains'[last'.id].profit = chains[last'.id].profit ]_vars

\* C6: no step deletes or replaces a chain: every chain is still there
\* after the step, with the same origin, its events extended and its
\* profit changed by nothing but a recordProfit on that chain.
C6_ChainsNeverDeleted ==
    [][ \A id \in DOMAIN chains :
            /\ id \in DOMAIN chains'
            /\ chains'[id].origin = chains[id].origin
            /\ IsPrefix(chains[id].events, chains'[id].events)
            /\ \/ chains'[id].profit = chains[id].profit
               \/ LedgerCall("recordProfit") /\ last'.id = id ]_vars

TimestampsOrdered(events) ==
    \A i \in 1..(Len(events) - 1) : events[i].timestamp <= events[i + 1].timestamp

C8_RoiOnlyWhenProfitable ==
    \A id \in DOMAIN chains :
        chains[id].semanticROI.kind # "undefined"
            => chains[id].status \in {"PROFITABLE", "COMPLETED"}

----------------------------------------------------------------------------
(* Properties of the router *)

\* the venues of the route whose expected profit reaches minProfit
QualifyingVenues(signal, route) ==
    {i \in 1..Len(route.chains) :
        calculateExpectedProfit(signal, route.chains[i], route) >= route.minProfit}

\* the step is a routeSignal call
RouterCall == routed' = routed + 1

\* C3: when a venue of the signal's route qualifies, routeSignal executes
\* one venue, it qualifies, and no qualifying venue has a higher
\* expectedProfit.
C3_ExecutesBestVenue ==
    (call.completed # "none" /\ call.signal.type \in DOMAIN signalRoutes) =>
        LET route == signalRoutes[call.signal.type]
            Q == QualifyingVenues(call.signal, route)
        IN  Q # {} =>
              /\ Len(call.invoked) = 1
              /\ \E j \in Q :
                    /\ route.chains[j] = call.invoked[1].chain
                    /\ \A i \in Q :
                          calculateExpectedProfit(call.signal, route.chains[j], route)
                            >= calculateExpectedProfit(call.signal, route.chains[i], route)

\* a call with several qualifying venues of different expected profit
C3_Witness ==
    /\ call.completed = "returned"
    /\ call.signal.type \in DOMAIN signalRoutes
    /\ Cardinality(QualifyingVenues(call.signal, signalRoutes[call.signal.type])) >= 2
    /\ Len(call.invoked) = 1
    /\ call.invoked[1].chain = "ethereum"

\* C4: routeSignal executes no venue whose expectedProfit is below
\* minProfit, and when no venue of the route reaches minProfit it returns
\* null, invokes no executor and records no attribution.
C4_NeverBelowMinProfit ==
    [][ (RouterCall /\ call'.signal.type \in DOMAIN signalRoutes) =>
            LET route == signalRoutes[call'.signal.type]
                Q == QualifyingVenues(call'.signal, route)
            IN  /\ \A k \in 1..Len(call'.invoked) :
                      \E i \in Q : route.chains[i] = call'.invoked[k].chain
                /\ Q = {} =>
                      /\ call'.result.isNull
                      /\ call'.completed = "returned"
                      /\ call'.invoked = <<>>
                      /\ UNCHANGED <<attributionMap, profitsBySignal, emitted>> ]_vars

\* a call for a routed signal of positive weight none of whose venues
\* reaches minProfit, made when attributions are already held
C4_Witness ==
    /\ call.completed = "returned"
    /\ call.signal.type \in DOMAIN signalRoutes
    /\ call.signal.weight > 0
    /\ QualifyingVenues(call.signal, signalRoutes[call.signal.type]) = {}
    /\ call.result.isNull
    /\ attributionMap # EmptyMap

\* C5: routeSignal on a signal whose type has no route returns null,
\* invokes no executor and leaves attributionMap, profitsBySignal and the
\* ledger's chains and profits unchanged.
C5_UnknownTypeIsNoOp ==
    [][ (RouterCall /\ call'.signal.type \notin DOMAIN signalRoutes) =>
            /\ call'.result.isNull
            /\ call'.completed = "returned"
            /\ call'.invoked = <<>>
            /\ UNCHANGED <<attributionMap, profitsBySignal, emitted, chains, profits>> ]_vars

C10_FailureIsRecorded ==
    [][ (RouterCall /\ ~call'.result.isNull /\ ~call'.result.success) =>
            \/ attributionMap' # attributionMap
            \/ profitsBySignal' # profitsBySignal
            \/ emitted' # emitted ]_vars

----------------------------------------------------------------------------
(* Persistence and concurrency of the attribution ledger *)

\* C11: in every reachable ledger state, what loadFromDatabase reads back from
\* the snapshot saveToDatabase writes is deeply equal to chains and profits
C11_RoundTrip ==
    Loaded(Snapshot(chains, profits)) = [chains |-> chains, profits |-> profits]

\* C12: once every concurrently issued recordProfit on a known chain has
\* completed, the file holds the snapshot of the in-memory chains and profits
C12_DurabilityPoint ==
    (last.op = "recordProfit" /\ last.known /\ writes = <<>>)
        => db = Snapshot(chains, profits)

\* the step is the failure of a snapshot write
WriteFailed == failures'.writes = failures.writes + 1

\* C13: a failed ledger write does not make recordProfit raise, the chain
\* keeps its recorded profit and COMPLETED status, and the next recordProfit
\* writes the full ledger again
C13_PersistenceFailureNotFatal ==
    /\ [][WriteFailed =>
            /\ failures'.rejected = failures.rejected
            /\ UNCHANGED <<chains, profits>>]_vars
    /\ [][(LedgerCall("recordProfit") /\ last'.known) =>
            /\ chains'[last'.id].status = "COMPLETED"
            /\ writes' = Append(writes, Snapshot(chains', profits'))]_vars

EventTypesOf(events) == [k \in 1..Len(events) |-> events[k].type]

\* C14: whatever the interleaving of recordEvent and recordProfit calls, no
\* update is lost: the profit of a chain is the sum of the net profits
\* recorded for it and its events are the recorded events, each once
C14_NoLostUpdate ==
    \A id \in DOMAIN chains :
        /\ chains[id].profit = recorded[id].profit
        /\ EventTypesOf(chains[id].events) = recorded[id].events

\* two recordProfit calls are in flight while an event is recorded
C14_Witness ==
    /\ Len(writes) = 2
    /\ DOMAIN profits = {"0xa", "0xb"}
    /\ \E id \in DOMAIN chains :
            /\ Len(chains[id].events) = 1
            /\ chains[id].profit = 1

SignalIds ==
    { generateSignalId(s, t, n) : s \in SemanticSources, t \in 0..MaxNow, n \in Nonces }

Triggered(id) == id \in DOMAIN chains /\ chains[id].status = "TRIGGERED"

\* C17: every chain that reaches TRIGGERED eventually leaves it
C17_NoChainHangsInTriggered ==
    \A id \in SignalIds : Triggered(id) ~> ~Triggered(id)

----------------------------------------------------------------------------
(* Dispatch *)

\* C15: one routeSignal call invokes a strategy executor at most once, exactly
\* once when a venue qualifies, and an execution that failed is the returned
\* result without a second invocation
C15_NeverRetries ==
    call.completed # "none" =>
        LET r == RouteFor(call.signal.type)
            qualifying == r.found /\ QualifyingVenues(call.signal, r.route) # {}
        IN  /\ Len(call.invoked) <= 1
            /\ qualifying <=> Len(call.invoked) = 1
            /\ call.threw =>
                    /\ Len(call.invoked) = 1
                    /\ call.completed = "returned"
                    /\ call.result = FailureResult

\* a routeSignal call whose only execution failed
C15_Witness ==
    /\ call.completed = "returned"
    /\ call.threw
    /\ Len(call.invoked) = 1
    /\ ~call.result.success

\* the signal of the standalone run
testSignal ==
    [type |-> "LIQUIDATION_THRESHOLD_BREACH", weight |-> 95,
     hasCascade |-> TRUE, cascadePotential |-> 85]

\* an expected profit in ten-thousandths of ETH, rounded half up
RoundedTo4(expectedProfit) == (expectedProfit + 5000) \div 10000

\* C19: for {LIQUIDATION_THRESHOLD_BREACH, weight 9.5, cascadePotential 85}
\* the route lists ethereum then arbitrum with minProfit 0.05, both venues
\* reach it (ethereum about 0.1406, arbitrum about 0.0984), ethereum ranks
\* first and routeSignal executes on ethereum
C19_ConcreteScenario ==
    (call.completed # "none" /\ call.signal = testSignal) =>
        LET route == signalRoutes[testSignal.type] IN
        /\ route.chains = <<"ethereum", "arbitrum">>
        /\ route.minProfit * 100 = 5 * ProfitScale
        /\ Len(call.opportunities) = 2
        /\ call.opportunities[1].chain = "ethereum"
        /\ RoundedTo4(call.opportunities[1].expectedProfit) = 1406
        /\ call.opportunities[2].chain = "arbitrum"
        /\ RoundedTo4(call.opportunities[2].expectedProfit) = 984
        /\ \A k \in 1..2 : call.opportunities[k].expectedProfit >= route.minProfit
        /\ Len(call.invoked) = 1
        /\ call.invoked[1].chain = "ethereum"

\* routeSignal has been called with the scenario's signal and has executed
C19_Witness ==
    /\ call.completed = "returned"
    /\ call.signal = testSignal
    /\ call.invoked # <<>>
    /\ call.result.success

\* a maximum below the number of signals that arrive
ConfiguredMaximum == MaxRouteCalls - 1

\* C16: the number of signal pipelines with an execution in flight never
\* exceeds the configured maximum
C16_BoundedConcurrency == Len(inflight) <= ConfiguredMaximum

----------------------------------------------------------------------------
(* Ranking and estimate *)

\* the venues, by position in route.chains, that qualify with the highest
\* expected profit
TopVenues(route, profitOf) ==
    {i \in 1..Len(route.chains) :
        /\ Qualifies(profitOf[i], route)
        /\ \A j \in 1..Len(route.chains) :
                Qualifies(profitOf[j], route) => profitOf[j] <= profitOf[i]}

\* the position of a venue in the route's list
Declared(route, chainName) ==
    CHOOSE i \in 1..Len(route.chains) : route.chains[i] = chainName

\* C18: when qualifying venues of a route have equal expected profit, the one
\* routeSignal ranks first, and executes, is the one declared earliest
C18_DeterministicTieBreak ==
    selection.done =>
        LET route == signalRoutes[selection.type]
            top == TopVenues(route, selection.profitOf)
        IN  /\ top = {} <=> selection.opportunities = <<>>
            /\ top # {} =>
                    /\ Declared(route, selection.opportunities[1].chain) \in top
                    /\ \A i \in top :
                            Declared(route, selection.opportunities[1].chain) <= i

\* three venues qualify, the last two tie for the highest expected profit and
\* the ranking has put the earlier of them first
C18_Witness ==
    /\ selection.done
    /\ Len(selection.opportunities) = 3
    /\ TopVenues(signalRoutes[selection.type], selection.profitOf) = {2, 3}
    /\ selection.opportunities[1].chain = signalRoutes[selection.type].chains[2]

\* C20: for a fixed venue, route and cascadePotential, calculateExpectedProfit
\* does not decrease when signal.weight grows within [0, 10]
C20_WeightMonotone ==
    (estimate.done /\ estimate.low <= estimate.high
        /\ estimate.chain \in DOMAIN chainModifiers) =>
        /\ estimate.lowProfit.kind = "number"
        /\ estimate.highProfit.kind = "number"
        /\ estimate.lowProfit.num <= estimate.highProfit.num

\* two different weights have been estimated and the profit has grown
C20_Witness ==
    /\ estimate.done
    /\ estimate.low < estimate.high
    /\ estimate.lowProfit.kind = "number"
    /\ estimate.highProfit.kind = "number"
    /\ estimate.lowProfit.num < estimate.highProfit.num

\* C21: for a venue without a configured chain modifier the estimator
\* falls back on a default constant, so that its result is a number
C21_ModifierDefaultsConservatively ==
    (estimate.done /\ estimate.chain \notin DOMAIN chainModifiers) =>
        /\ estimate.lowProfit.kind = "number"
        /\ estimate.highProfit.kind = "number"

\* the highest configured rate among the strategies, 0.01 for a strategy
\* without one
HighestRate(strategies) ==
    LET rate(s) == IF s \in DOMAIN strategyProfits THEN strategyProfits[s] ELSE 10
        rates == {rate(strategies[k]) : k \in 1..Len(strategies)}
    IN  CHOOSE m \in rates : \A r \in rates : r <= m

\* C30: calculateExpectedProfit is (weight/10) x chainModifier(venue) x M x
\* (1 + cascadePotential/100), M the highest rate of the route's strategies
\* (0.01 for an unconfigured one), a missing cascadePotential counting as 0;
\* it is never negative
C30_ExpectedProfitFormula ==
    (estimate.done /\ estimate.chain \in DOMAIN chainModifiers) =>
        LET cascade == IF estimate.hasCascade THEN estimate.cascadePotential ELSE 0
            value(w) == w * chainModifiers[estimate.chain]
                            * HighestRate(signalRoutes[estimate.type].strategies)
                            * (100 + cascade)
        IN  /\ estimate.lowProfit = Number(value(estimate.low))
            /\ estimate.highProfit = Number(value(estimate.high))
            /\ estimate.lowProfit.num >= 0
            /\ estimate.highProfit.num >= 0

\* the estimate of a route with an unconfigured strategy, for a signal
\* without cascadePotential
C30_Witness ==
    /\ estimate.done
    /\ estimate.type = "MEV_OPPORTUNITY_SURFACE"
    /\ estimate.chain = "arbitrum"
    /\ ~estimate.hasCascade
    /\ estimate.high = 95
    /\ estimate.highProfit = Number(95 * 7 * 20 * 100)

\* C26: for a signal of weight 0 routeSignal invokes no executor and records
\* no attribution, whatever the route
C26_NoiseIsNeverRouted ==
    [][ (RouterCall /\ call'.signal.weight = 0) =>
            /\ call'.invoked = <<>>
            /\ call'.opportunities = <<>>
            /\ UNCHANGED <<attributionMap, profitsBySignal, emitted>> ]_vars

\* a signal of weight 0 and a high cascade potential has been routed on a
\* three-venue route, after a call that recorded an attribution
C26_Witness ==
    /\ call.completed = "returned"
    /\ call.signal.weight = 0
    /\ call.signal.cascadePotential > 0
    /\ call.signal.type = "FLASHLOAN_ARBITRAGE_GAP"
    /\ call.invoked = <<>>
    /\ emitted > 0

----------------------------------------------------------------------------
(* Effects of the ledger operations *)

\* C27: recordEvent on a known chain sets the status to TRIGGERED for
\* BOT_RESPONSE, to PROFITABLE for LIQUIDATION_EXECUTED and leaves it for any
\* other type; it never changes the chain's profit, semanticROI or origin
C27_RecordEventTransitions ==
    [][ (LedgerCall("recordEvent") /\ last'.known) =>
            LET before == chains[last'.id]
                after == chains'[last'.id]
            IN  /\ last'.type = "BOT_RESPONSE" => after.status = "TRIGGERED"
                /\ last'.type = "LIQUIDATION_EXECUTED" => after.status = "PROFITABLE"
                /\ last'.type \notin {"BOT_RESPONSE", "LIQUIDATION_EXECUTED"} =>
                        after.status = before.status
                /\ after.profit = before.profit
                /\ after.semanticROI = before.semanticROI
                /\ after.origin = before.origin ]_vars

\* an event of another type has been recorded on a chain that holds a profit:
\* the chain is still COMPLETED
C27_Witness ==
    /\ last.op = "recordEvent"
    /\ last.known
    /\ last.type = "JAM_OBSERVED"
    /\ last.id \in DOMAIN chains
    /\ chains[last.id].status = "COMPLETED"
    /\ chains[last.id].profit # 0
    /\ chains[last.id].events # <<>>

\* C28: recordProfit on a known chain adds amountETH - gasSpent (gasSpent 0
\* when absent) to the chain's profit, sets the status to COMPLETED, sets
\* semanticROI from this call's net profit, stores a profit record under the
\* txHash and leaves every other chain unchanged
C28_RecordProfitEffects ==
    [][ (LedgerCall("recordProfit") /\ last'.known) =>
            \E p \in ProfitInputs :
                LET net == p.amountETH - (IF p.hasGas THEN p.gasSpent ELSE 0)
                    before == chains[last'.id]
                    after == chains'[last'.id]
                IN  /\ p.txHash = last'.txHash
                    /\ after.profit = before.profit + net
                    /\ after.status = "COMPLETED"
                    /\ after.semanticROI = Quotient(net * 100, before.origin.weight)
                    /\ last'.txHash \in DOMAIN profits'
                    /\ profits'[last'.txHash].signalId = last'.id
                    /\ profits'[last'.txHash].netProfit = net
                    /\ profits'[last'.txHash].amountETH = p.amountETH
                    /\ DOMAIN chains' = DOMAIN chains
                    /\ \A id \in DOMAIN chains \ {last'.id} : chains'[id] = chains[id] ]_vars

\* a second profit has been recorded on a chain while another chain exists:
\* the ROI is the one of the last profit, not of the total
C28_Witness ==
    /\ last.op = "recordProfit"
    /\ last.known
    /\ last.txHash = "0xb"
    /\ Cardinality(DOMAIN chains) = 2
    /\ last.id \in DOMAIN chains
    /\ chains[last.id].profit = 1
    /\ chains[last.id].semanticROI = Quotient(-100, 10)

\* C29: recordEvent with an unknown chain id changes nothing: no chain is
\* created, and chains and profits are as before
C29_RecordEventUnknownId ==
    [][ (LedgerCall("recordEvent") /\ ~last'.known) =>
            /\ last'.id \notin DOMAIN chains'
            /\ UNCHANGED <<chains, profits, db, writes>> ]_vars

\* recordEvent has been called with an unknown id on a ledger that holds a
\* chain with events and a profit
C29_Witness ==
    /\ last.op = "recordEvent"
    /\ ~last.known
    /\ profits # EmptyMap
    /\ \E id \in DOMAIN chains : chains[id].events # <<>>

----------------------------------------------------------------------------
(* Reports of the ledger *)

RECURSIVE TotalOverTypes(_, _)
TotalOverTypes(analysis, types) ==
    IF types = {} THEN 0
    ELSE LET t == CHOOSE x \in types : TRUE
         IN  TotalOverTypes(analysis, types \ {t}) + analysis[t].totalProfit

\* C22: what getDashboard returns has summary.totalProfitETH equal to the sum
\* of chain.profit over all chains and equal to the sum of totalProfit over
\* the signal types of the per-type analysis
C22_DashboardConsistency ==
    last.op = "getDashboard" =>
        /\ returned.summary.totalProfitETH = TotalProfit(chains, DOMAIN chains)
        /\ returned.summary.totalProfitETH =
                TotalOverTypes(returned.semanticAnalysis, DOMAIN returned.semanticAnalysis)

----------------------------------------------------------------------------
(* Scorer and daemon *)

\* C25: every result of the scorer has a score that is a number from 0 to 10,
\* 0 for a category that is not in the table; cascadePotential is the square
\* of the score, 100 for parameterChange; priority is URGENT exactly when the
\* score is at least 7 and MONITOR otherwise
C25_ScorerTotalAndCascade ==
    \A i \in 1..Len(scored) :
        LET type == scored[i].event.type
            c == scored[i].cascade
        IN  /\ c.semanticWeight.kind = "number"
            /\ c.semanticWeight.num \in 0..10
            /\ type \notin DOMAIN weights => c.semanticWeight = Number(0)
            /\ c.cascadePotential = Number(c.semanticWeight.num * c.semanticWeight.num)
            /\ type = "parameterChange" => c.cascadePotential = Number(100)
            /\ c.priority = IF c.semanticWeight.num >= 7 THEN "URGENT" ELSE "MONITOR"

\* the candidates whose score is strictly above that of the candidate c
StrictlyAbove(c, hour, history) ==
    LET all == WeightedTemplates(hour, history)
    IN  {i \in 1..Len(all) : Below(Score(c), Score(all[i]))}

\* C23: the signal that selectOptimalSignal returned is a template, weighted
\* for the hour and the history of the call, and fewer than 3 candidates have
\* a strictly higher score
C23_TopThreeOnly ==
    picked.done /\ picked.current =>
        /\ \E i \in 1..Len(signalTemplates) :
                picked.signal = WeightedTemplates(picked.hour, signalHistory)[i]
        /\ Cardinality(StrictlyAbove(picked.signal, picked.hour, signalHistory)) < 3

\* a call returned the candidate that is third by score, at an hour that
\* boosts it and with a history that boosts another one
C23_Witness ==
    /\ picked.done /\ picked.current
    /\ Len(signalHistory) > 0
    /\ picked.signal.timeWeight > 10
    /\ Cardinality(StrictlyAbove(picked.signal, picked.hour, signalHistory)) = 2

\* C24: two calls of selectOptimalSignal in a row, at the same hour and with
\* the same signal history, return the same signal
C24_SelectionReproducible ==
    [][ ( /\ ticks' = ticks + 1
          /\ picked.done /\ picked.current
          /\ picked'.hour = picked.hour )
        => picked'.signal = picked.signal ]_vars

----------------------------------------------------------------------------
(* Creation, totals and failed loads of the ledger *)

\* C31: a tagJAM call makes the number of chains grow by one; the new chain
\* has status BROADCASTED, no events, profit 0 and the given source as origin;
\* the chains that existed are unchanged
C31_TagJAMCreatesOneChain ==
    [][ LedgerCall("tagJAM") =>
            /\ Cardinality(DOMAIN chains') = Cardinality(DOMAIN chains) + 1
            /\ last'.id \in DOMAIN chains'
            /\ chains'[last'.id].status = "BROADCASTED"
            /\ chains'[last'.id].events = <<>>
            /\ chains'[last'.id].profit = 0
            /\ chains'[last'.id].origin.type = last'.type
            /\ \A id \in DOMAIN chains : id \in DOMAIN chains' /\ chains'[id] = chains[id] ]_vars

\* the profit records that carry the signal id
RecordsOf(profitMap, signalId) ==
    {tx \in DOMAIN profitMap : profitMap[tx].signalId = signalId}

RECURSIVE TotalNetProfit(_, _)
TotalNetProfit(profitMap, txs) ==
    IF txs = {} THEN 0
    ELSE LET tx == CHOOSE x \in txs : TRUE
         IN  TotalNetProfit(profitMap, txs \ {tx}) + profitMap[tx].netProfit

\* C34: the sum of chain.profit over the chains equals the sum of netProfit
\* over the records of the profits map, and the profit of each chain equals
\* the sum of netProfit of the records that carry its signal id
C34_ProfitConsistency ==
    /\ TotalProfit(chains, DOMAIN chains) = TotalNetProfit(profits, DOMAIN profits)
    /\ \A id \in DOMAIN chains :
            chains[id].profit = TotalNetProfit(profits, RecordsOf(profits, id))

\* C36: a loadFromDatabase call that finds no file, or a file that is not a
\* snapshot, leaves the chains map and the profits map as they were
C36_LoadAllOrNothing ==
    [][ (LedgerCall("loadFromDatabase") /\ db.kind # "snapshot") =>
            UNCHANGED <<chains, profits>> ]_vars

\* C37: recordProfit with an unknown chain id adds no profit record, changes
\* no chain and starts no write of the snapshot (no call is left waiting to
\* return a result)
C37_RecordProfitUnknownId ==
    [][ (LedgerCall("recordProfit") /\ ~last'.known) =>
            /\ last'.id \notin DOMAIN chains'
            /\ UNCHANGED <<chains, profits, writes, db, failures>> ]_vars

\* recordProfit has been called with an unknown id on a ledger that holds a
\* chain with a profit, while no write is pending
C37_Witness ==
    /\ last.op = "recordProfit"
    /\ ~last.known
    /\ profits # EmptyMap
    /\ writes = <<>>
    /\ \E id \in DOMAIN chains : chains[id].profit # 0

RECURSIVE TotalCount(_, _)
TotalCount(analysis, types) ==
    IF types = {} THEN 0
    ELSE LET t == CHOOSE x \in types : TRUE
         IN  TotalCount(analysis, types \ {t}) + analysis[t].count

\* C32: the analysis that getDashboard returns has, for every signal type of
\* a chain, count = the number of chains of the type, totalProfit = the sum
\* of their profits, avgProfit = totalProfit / count and successRate = the
\* percentage of them that are COMPLETED or PROFITABLE; the counts of all
\* types add up to the number of chains
C32_SemanticYield ==
    last.op = "getDashboard" =>
        LET analysis == returned.semanticAnalysis IN
        /\ \A id \in DOMAIN chains :
              LET type == chains[id].origin.type
                  same == {i \in DOMAIN chains : chains[i].origin.type = type}
                  good == {i \in same : chains[i].status \in {"COMPLETED", "PROFITABLE"}}
              IN  /\ type \in DOMAIN analysis
                  /\ analysis[type].count = Cardinality(same)
                  /\ analysis[type].totalProfit = TotalProfit(chains, same)
                  /\ analysis[type].avgProfit =
                        Quotient(TotalProfit(chains, same), Cardinality(same))
                  /\ analysis[type].successRate =
                        Quotient(Cardinality(good) * 100, Cardinality(same))
        /\ TotalCount(analysis, DOMAIN analysis) = Cardinality(DOMAIN chains)

\* the time patterns of calculateTimeWeight: type, first and last hour
ConfiguredPatterns ==
    { <<"LIQUIDATION_THRESHOLD_BREACH", 2, 6>>, <<"MEV_OPPORTUNITY_SURFACE", 14, 18>>,
      <<"BANKRUPTCY_FILING_DETECTED", 16, 20>>, <<"ORACLE_PRICE_DEVIATION", 0, 4>> }

TemplateTypes == {signalTemplates[i].type : i \in 1..Len(signalTemplates)}

\* the cascade sizes that the history holds for the type
SizesOf(history, type) == {i \in 1..Len(history) : history[i].type = type}

RECURSIVE SizeTotal(_, _)
SizeTotal(history, positions) ==
    IF positions = {} THEN 0
    ELSE LET i == CHOOSE x \in positions : TRUE
         IN  SizeTotal(history, positions \ {i}) + history[i].cascadeSize

\* timeWeight is 1 (10 tenths) for every template type and hour of the day
\* that no configured pattern covers
UncoveredWeighOne ==
    \A type \in TemplateTypes, hour \in 0..23 :
        (\A p \in ConfiguredPatterns : ~(p[1] = type /\ p[2] <= hour /\ hour <= p[3]))
            => calculateTimeWeight(type, hour) = 10

C39_BroadcastBookkeeping ==
    /\ [](totalSignals = Len(signalHistory))
    /\ [][ Len(sending') < Len(sending) =>
              \/ /\ sent' = "txResponse"
                 /\ \E i \in 1..Len(sending) :
                        signalHistory' =
                            Append(signalHistory, [type |-> sending[i], cascadeSize |-> 0])
                 /\ totalSignals' = totalSignals + 1
              \/ /\ sent' = "null"
                 /\ UNCHANGED <<signalHistory, totalSignals>> ]_vars

\* a send has failed after another one succeeded and its cascade was measured
C39_Witness ==
    /\ sent = "null"
    /\ totalSignals = 1
    /\ Len(signalHistory) = 1
    /\ signalHistory[1].cascadeSize > 0

\* C40: the last snapshot of the log has totalUSD equal to the sum of usdValue
\* over its balances, and the log never holds more than 1000 snapshots
C40_BalanceHistoryConsistent ==
    /\ profitLog.length <= HistoryCap
    /\ profitLog.saved => profitLog.totalUSD = SumUsd(profitLog.balances)

----------------------------------------------------------------------------
(* Report and dispatch of the router *)

RECURSIVE SumOfRecords(_, _)
SumOfRecords(attributions, txs) ==
    IF txs = {} THEN 0
    ELSE LET tx == CHOOSE x \in txs : TRUE
         IN  SumOfRecords(attributions, txs \ {tx}) + attributions[tx].profit

\* C35: the report has totalSignals equal to the number of successful
\* executions and totalProfit equal to the sum of the profit of the records
\* of attributionMap; a routeSignal call whose execution failed leaves
\* attributionMap and profitsBySignal unchanged and emits nothing, one whose
\* execution succeeded emits one event
C35_ReportConsistency ==
    /\ [][ GetAttributionReport =>
              /\ report'.totalSignals = emitted
              /\ report'.totalProfit = SumOfRecords(attributionMap, DOMAIN attributionMap) ]_vars
    /\ [][ RouterCall =>
              IF ~call'.result.isNull /\ call'.result.success
              THEN emitted' = emitted + 1
              ELSE UNCHANGED <<attributionMap, profitsBySignal, emitted>> ]_vars

\* C38: for every route of the routing table the rate of the primary
\* strategy, strategies[0], is the highest rate among the route's strategies;
\* the strategy that a routeSignal call executed is that primary strategy and
\* its rate is the one the estimate was computed with
C38_EstimateAndDispatchAgree ==
    /\ \A t \in DOMAIN signalRoutes :
            StrategyProfit(signalRoutes[t].strategies[1])
                = HighestRate(signalRoutes[t].strategies)
    /\ (call.invoked # <<>>) =>
            LET route == signalRoutes[call.signal.type]
            IN  /\ call.invoked[1].strategy = route.strategies[1]
                /\ StrategyProfit(call.invoked[1].strategy) = MaxStrategyProfit(route.strategies)

\* a call executed the primary strategy of a route whose second strategy has
\* no configured rate and ties with it by the default
C38_Witness ==
    /\ call.invoked # <<>>
    /\ call.signal.type = "CROSS_CHAIN_YIELD_DELTA"
    /\ call.invoked[1].strategy = "bridgeArbitrage"
    /\ call.completed = "returned"

====
